---- MODULE Spec2Model ----
(***************************************************************************)
(* NextUp-Core: the task weighting (src/src/weighting.rs), the bounty and  *)
(* ledger arithmetic (src/src/finance.rs) and the task / transaction /     *)
(* settings store (src/src/db.rs), with the prompts of src/src/ui.rs.      *)
(*                                                                         *)
(* Time.  A DateTime<Utc> is an instant counted in clock ticks since the   *)
(* epoch; TicksPerSec ticks make one second and SecsPerDay seconds one     *)
(* day.  The source has nanosecond ticks and 86400 seconds per day; both   *)
(* are scaled down so that every product stays inside TLC's integers.      *)
(* timestamp() truncates an instant to whole seconds, as chrono does.      *)
(*                                                                         *)
(* Numbers.  f32 / f64 values are exact rationals <<n, d>> in lowest terms *)
(* (d > 0); <<1, 0>> is the infinite value and <<0, 0>> is not a number.   *)
(* At the model's scale every integer-to-float cast is exact; the rounding *)
(* of quotients to 24 / 53 bits is not modelled, except where it decides   *)
(* the cent base_value rounds to (f64_short_of_half).                      *)
(*                                                                         *)
(* Clock reads.  One scoring call reads Utc::now() several times; the      *)
(* model gives every read inside one call the same instant `now`.          *)
(***************************************************************************)
EXTENDS Integers, Sequences, FiniteSets, TLC

VARIABLES now, tasks, transactions, presented, last, settings

vars == <<now, tasks, transactions, presented, last, settings>>

\* last: the most recent call of a pure function, with its inputs and result
NoCall == [op |-> "none"]

----------------------------------------------------------------------------
(* Scale and bounds *)

\* clock ticks per second (sub-second resolution of DateTime<Utc>)
TicksPerSec == 2
\* seconds per day: 86400 in the source, scaled
SecsPerDay == 2
\* largest lead_days / repeat_interval value of the scoring inputs
MaxLead == 2
MaxInterval == 2
\* the scoring inputs' clock and date ranges, in ticks
MaxWeightNow == 14
MaxFromDate == 4
MaxDueDate == 14
\* the bounty inputs: stored tasks per table
MaxEstimateTasks == 2
\* the session: days of clock, stored tasks, shows per task, ledger length
MaxDays == 4
MaxTasks == 2
MaxShown == 2
MaxTransactions == 2
\* the ledger specification: appended transactions
MaxLedger == 3
\* the selector specification: length of the freely arranged lists
MaxSelectLen == 3
\* the dominance specification: days of clock, and a lead window far longer
\* than the age of the clock
MaxDominanceDays == 40
MaxDominanceLead == 1000
\* the prompts' largest accepted numbers
MaxPromptDays == 1
MaxPromptLead == 1
MaxPromptInterval == 1

Day == SecsPerDay * TicksPerSec

----------------------------------------------------------------------------
(* Option<T>: None is the empty sequence, Some(x) the one-element sequence *)

None == <<>>
Some(x) == <<x>>
is_some(o) == o # None
is_none(o) == o = None
unwrap(o) == o[1]
OptionOf(S) == {None} \cup {Some(x) : x \in S}

----------------------------------------------------------------------------
(* Exact rationals standing for the floats *)

RECURSIVE Gcd(_, _)
Gcd(a, b) == IF b = 0 THEN a ELSE Gcd(b, a % b)

Abs(x) == IF x < 0 THEN -x ELSE x

\* n / d in lowest terms, d # 0
Frac(n, d) ==
    LET g == Gcd(Abs(n), Abs(d))
        s == IF d < 0 THEN -1 ELSE 1
    IN  <<(s * n) \div g, (s * d) \div g>>

FromInt(i) == <<i, 1>>
RatAdd(a, b) == Frac(a[1] * b[2] + b[1] * a[2], a[2] * b[2])
RatMul(a, b) == Frac(a[1] * b[1], a[2] * b[2])
RatDiv(a, b) == Frac(a[1] * b[2], a[2] * b[1])

\* a < b without forming the cross products: compare the integer parts, then
\* the reciprocals of the fractional parts
RECURSIVE RatLess(_, _)
RatLess(a, b) ==
    LET qa == a[1] \div a[2]
        qb == b[1] \div b[2]
        ra == a[1] % a[2]
        rb == b[1] % b[2]
    IN  IF qa # qb THEN qa < qb
        ELSE IF rb = 0 THEN FALSE
        ELSE IF ra = 0 THEN TRUE
        ELSE RatLess(<<b[2], rb>>, <<a[2], ra>>)

----------------------------------------------------------------------------
(* tasks.rs / db.rs: the Task record *)

Priority == {"P0", "P1", "P2", "P3"}

\* DateTime::timestamp: whole seconds since the epoch
timestamp(t) == t \div TicksPerSec

\* Duration::days(n), in ticks
DurationDays(n) == n * Day

Task(id, archived, due, from, lead, prio, repeat, selected, shown) ==
    [id |-> id, is_archived |-> archived, due_date |-> due, from_date |-> from,
     lead_days |-> lead, priority |-> prio, repeat_interval |-> repeat,
     times_selected |-> selected, times_shown |-> shown]

----------------------------------------------------------------------------
(* weighting.rs *)

adjust_for_priority_flat(task) == FromInt(2)

adjust_for_priority(task) ==
    CASE task.priority = "P0" -> FromInt(2)
      [] task.priority = "P1" -> FromInt(3)
      [] task.priority = "P2" -> FromInt(5)
      [] task.priority = "P3" -> FromInt(8)

\* the outcome of a scoring call: which formula ran, and a weight or a panic
Weighed(by, w) == [by |-> by, kind |-> "value", w |-> w]
Panicked(by) == [by |-> by, kind |-> "panic", w |-> FromInt(0)]

\* weighting.rs:23-25, the branch taken while the lead window is still closed
due_pre_window(task, clock) ==
    RatDiv(FromInt(timestamp(clock)),
           RatAdd(FromInt(timestamp(unwrap(task.due_date))),
                  FromInt(-(unwrap(task.lead_days) * SecsPerDay))))

due_in_window_no_offset(task, clock) ==
    RatDiv(RatMul(FromInt(100),
                  RatAdd(RatAdd(FromInt(timestamp(clock)),
                                FromInt(-timestamp(unwrap(task.due_date)))),
                         FromInt(unwrap(task.lead_days) * SecsPerDay))),
           FromInt(unwrap(task.lead_days) * SecsPerDay))

due_in_window_unit_slope(task, clock) ==
    RatAdd(RatDiv(RatAdd(RatAdd(FromInt(timestamp(clock)),
                                FromInt(-timestamp(unwrap(task.due_date)))),
                         FromInt(unwrap(task.lead_days) * SecsPerDay)),
                  FromInt(unwrap(task.lead_days) * SecsPerDay)),
           FromInt(1))

\* weighting.rs:29-34, the branch taken once the lead window is open
due_in_window(task, clock) ==
    RatAdd(RatDiv(RatMul(FromInt(100),
                         RatAdd(RatAdd(FromInt(timestamp(clock)),
                                       FromInt(-timestamp(unwrap(task.due_date)))),
                                FromInt(unwrap(task.lead_days) * SecsPerDay))),
                  FromInt(unwrap(task.lead_days) * SecsPerDay)),
           FromInt(1))

weight_due_task_tenfold(task, clock) ==
    IF is_none(task.lead_days) \/ is_none(task.due_date)
    THEN Panicked("due")
    ELSE IF timestamp(clock)
            <= timestamp(unwrap(task.due_date)) - unwrap(task.lead_days) * SecsPerDay
    THEN Weighed("due", RatMul(due_pre_window(task, clock), adjust_for_priority(task)))
    ELSE Weighed("due",
                 RatMul(RatAdd(RatMul(FromInt(10),
                                      RatAdd(due_in_window(task, clock), FromInt(-1))),
                               FromInt(1)),
                        adjust_for_priority(task)))

\* Option::unwrap on a missing lead_days (or due_date) panics
weight_due_task(task, clock) ==
    IF is_none(task.lead_days) \/ is_none(task.due_date)
    THEN Panicked("due")
    ELSE IF timestamp(clock)
            <= timestamp(unwrap(task.due_date)) - unwrap(task.lead_days) * SecsPerDay
    THEN Weighed("due", RatMul(due_pre_window(task, clock), adjust_for_priority(task)))
    ELSE Weighed("due", RatMul(due_in_window(task, clock), adjust_for_priority(task)))

weight_repeat_task_strict(task, clock) ==
    IF task.from_date + DurationDays(unwrap(task.repeat_interval)) > clock
    THEN Weighed("repeat", FromInt(0))
    ELSE Weighed("repeat",
            RatMul(RatMul(FromInt(1), adjust_for_priority(task)),
                   RatAdd(RatMul(<<667, 1000>>,
                                 RatDiv(FromInt(timestamp(clock)),
                                        FromInt(timestamp(task.from_date
                                            + DurationDays(unwrap(task.repeat_interval)))))),
                          <<333, 1000>>)))

weight_repeat_task_elapsed_zero(task, clock) ==
    IF task.from_date + DurationDays(unwrap(task.repeat_interval)) < clock
    THEN Weighed("repeat", FromInt(0))
    ELSE Weighed("repeat", RatMul(FromInt(1), adjust_for_priority(task)))

weight_repeat_task(task, clock) ==
    IF task.from_date + DurationDays(unwrap(task.repeat_interval)) >= clock
    THEN Weighed("repeat", FromInt(0))
    ELSE Weighed("repeat",
            RatMul(RatMul(FromInt(1), adjust_for_priority(task)),
                   RatAdd(RatMul(<<667, 1000>>,
                                 RatDiv(FromInt(timestamp(clock)),
                                        FromInt(timestamp(task.from_date
                                            + DurationDays(unwrap(task.repeat_interval)))))),
                          <<333, 1000>>)))

weight_oneoff_task_repeat_offset(task, clock) ==
    Weighed("oneoff",
        RatMul(RatMul(FromInt(1), adjust_for_priority(task)),
               RatAdd(RatMul(<<667, 1000>>,
                             RatDiv(FromInt(timestamp(clock)),
                                    FromInt(timestamp(task.from_date + DurationDays(20))))),
                      <<333, 1000>>)))

weight_oneoff_task(task, clock) ==
    Weighed("oneoff",
        RatMul(RatMul(FromInt(1), adjust_for_priority(task)),
               RatAdd(RatMul(<<667, 1000>>,
                             RatDiv(FromInt(timestamp(clock)),
                                    FromInt(timestamp(task.from_date + DurationDays(20))))),
                      FromInt(1))))

calculate_weight_repeat_first(task, clock) ==
    IF is_some(task.repeat_interval) THEN weight_repeat_task(task, clock)
    ELSE IF is_some(task.due_date) THEN weight_due_task(task, clock)
    ELSE weight_oneoff_task(task, clock)

calculate_weight(task, clock) ==
    IF is_some(task.due_date) THEN weight_due_task(task, clock)
    ELSE IF is_some(task.repeat_interval) THEN weight_repeat_task(task, clock)
    ELSE weight_oneoff_task(task, clock)

----------------------------------------------------------------------------
(* db.rs: the tasks table and the transactions table.  A table is the      *)
(* sequence of its rows in rowid order; rows are never deleted, so the id  *)
(* SQLite assigns to a new row is the new length.                          *)

unwrap_or(o, dflt) == IF is_some(o) THEN o[1] ELSE dflt

\* db.rs:216-219, the default settings
maximum_monthly_allowance == 600
target_monthly_allowance == 400

\* the settings table as init_settings fills it: key -> value
default_settings ==
    [maximum_monthly_allowance |-> maximum_monthly_allowance,
     target_monthly_allowance |-> target_monthly_allowance]

\* the values of the settings table, the target allowance first
read_settings == <<settings.target_monthly_allowance, settings.maximum_monthly_allowance>>

add_task_keep_id(tbl, task) == Append(tbl, task)

\* the INSERT names every column but id
add_task(tbl, task) == Append(tbl, [task EXCEPT !.id = Len(tbl) + 1])

tasks_from_stmt_all(rows, clock, include_inactive) == rows

tasks_from_stmt_at_elapse(rows, clock, include_inactive) ==
    LET push(task) ==
            \/ is_none(task.repeat_interval)
            \/ task.from_date + DurationDays(unwrap_or(task.repeat_interval, 0)) <= clock
            \/ include_inactive
    IN  SelectSeq(rows, push)

tasks_from_stmt(rows, clock, include_inactive) ==
    LET push(task) ==
            \/ is_none(task.repeat_interval)
            \/ task.from_date + DurationDays(unwrap_or(task.repeat_interval, 0)) < clock
            \/ include_inactive
    IN  SelectSeq(rows, push)

read_active_tasks_with_archived(tbl, clock) == tasks_from_stmt(tbl, clock, FALSE)

read_active_tasks(tbl, clock) ==
    LET active(task) == task.is_archived = FALSE
    IN  tasks_from_stmt(SelectSeq(tbl, active), clock, FALSE)

read_all_tasks_unarchived(tbl, clock) ==
    LET active(task) == task.is_archived = FALSE
    IN  tasks_from_stmt(SelectSeq(tbl, active), clock, TRUE)

read_all_tasks(tbl, clock) == tasks_from_stmt(tbl, clock, TRUE)

\* f64 comparison price >= 0.0
GeqZero(price) == price[1] >= 0

add_transaction_zero_subtracted(txs, clock, price) ==
    IF price[1] > 0
    THEN Append(txs, [date |-> clock, funds_added |-> Some(price),
                      funds_subtracted |-> None])
    ELSE Append(txs, [date |-> clock, funds_added |-> None,
                      funds_subtracted |-> Some(RatMul(price, FromInt(-1)))])

add_transaction_newest_first(txs, clock, price) ==
    IF GeqZero(price)
    THEN <<[date |-> clock, funds_added |-> Some(price), funds_subtracted |-> None]>> \o txs
    ELSE <<[date |-> clock, funds_added |-> None,
            funds_subtracted |-> Some(RatMul(price, FromInt(-1)))]>> \o txs

add_transaction(txs, clock, price) ==
    IF GeqZero(price)
    THEN Append(txs, [date |-> clock, funds_added |-> Some(price),
                      funds_subtracted |-> None])
    ELSE Append(txs, [date |-> clock, funds_added |-> None,
                      funds_subtracted |-> Some(RatMul(price, FromInt(-1)))])

\* the rows in rowid order as (date, funds_added, funds_subtracted) tuples; a
\* row without funds_added is read with its funds_subtracted unwrapped
read_transactions(txs) ==
    [i \in 1..Len(txs) |->
        IF is_some(txs[i].funds_added)
        THEN <<txs[i].date, Some(unwrap(txs[i].funds_added)), None>>
        ELSE <<txs[i].date, None, Some(unwrap(txs[i].funds_subtracted))>>]

\* UPDATE ... WHERE id = ?: the row whose id is given, if there is one
UpdateRow(tbl, id, field, value) ==
    [i \in 1..Len(tbl) |-> IF tbl[i].id = id THEN [tbl[i] EXCEPT ![field] = value]
                           ELSE tbl[i]]

increment_times_shown_every_row(tbl, id, times_shown) ==
    [i \in 1..Len(tbl) |-> [tbl[i] EXCEPT !.times_shown = tbl[i].times_shown + 1]]

increment_times_shown(tbl, id, times_shown) ==
    UpdateRow(tbl, id, "times_shown", times_shown + 1)

increment_times_selected_every_row(tbl, id, times_selected) ==
    [i \in 1..Len(tbl) |-> [tbl[i] EXCEPT !.times_selected = times_selected + 1]]

increment_times_selected_by_two(tbl, id, times_selected) ==
    UpdateRow(tbl, id, "times_selected", times_selected + 2)

increment_times_selected(tbl, id, times_selected) ==
    UpdateRow(tbl, id, "times_selected", times_selected + 1)

reset_from_date_unchanged(tbl, clock, id) == tbl

reset_from_date(tbl, clock, id) == UpdateRow(tbl, id, "from_date", clock)

archive_task_every_row(tbl, id) ==
    [i \in 1..Len(tbl) |-> [tbl[i] EXCEPT !.is_archived = TRUE]]

archive_task(tbl, id) == UpdateRow(tbl, id, "is_archived", TRUE)

----------------------------------------------------------------------------
(* finance.rs *)

RECURSIVE monthly_loop_ceiling(_, _, _)
monthly_loop_ceiling(task_list, clock, avg_monthly_tasks) ==
    IF task_list = <<>> THEN avg_monthly_tasks
    ELSE LET task == Head(task_list)
             add == IF is_some(task.repeat_interval)
                    THEN (30 + unwrap(task.repeat_interval) - 1)
                             \div unwrap(task.repeat_interval)
                    ELSE IF task.from_date + DurationDays(3) >= clock THEN 1 ELSE 0
         IN  monthly_loop_ceiling(Tail(task_list), clock, avg_monthly_tasks + add)

\* finance.rs:27-36, the loop over the task list (u32 arithmetic)
RECURSIVE monthly_loop(_, _, _)
monthly_loop(task_list, clock, avg_monthly_tasks) ==
    IF task_list = <<>> THEN avg_monthly_tasks
    ELSE LET task == Head(task_list)
             add == IF is_some(task.repeat_interval)
                    THEN 30 \div unwrap(task.repeat_interval)
                    ELSE IF task.from_date + DurationDays(3) > clock THEN 1 ELSE 0
         IN  monthly_loop(Tail(task_list), clock, avg_monthly_tasks + add)

calc_monthly_tasks(tbl, clock) == monthly_loop(read_all_tasks(tbl, clock), clock, 0)

\* f64::round: to the nearest integer, halves away from zero; an infinite
\* value (denominator 0) stays infinite
f64_round(x) ==
    IF x[2] = 0 THEN x
    ELSE IF x[1] >= 0 THEN FromInt((2 * x[1] + x[2]) \div (2 * x[2]))
    ELSE FromInt(-((2 * (-x[1]) + x[2]) \div (2 * x[2])))

\* quotients whose f64 image times 100.0 lies just below the half-integer that
\* the exact product is: 23/40 is 0.57499999999999996 in f64 and
\* 0.57499999999999996 * 100.0 is 57.49999999999999
f64_short_of_half == {<<23, 40>>}

\* finance.rs:60, (result * 100.0).round()
round_cents(result) ==
    IF result \in f64_short_of_half
    THEN FromInt((100 * result[1]) \div result[2])
    ELSE f64_round(RatMul(result, FromInt(100)))

\* a division by 0.0 gives the infinite value <<1, 0>>
base_value(tbl, clock) ==
    LET monthly_tasks == calc_monthly_tasks(tbl, clock)
        target_allowance == read_settings[1]
        result == RatDiv(FromInt(target_allowance), FromInt(monthly_tasks))
    IN  RatDiv(round_cents(result), FromInt(100))

adjusted_value_by_ratio(tbl, clock, task) ==
    RatMul(base_value(tbl, clock), Frac(task.times_selected + 1, task.times_shown + 1))

adjusted_value(tbl, clock, task) == base_value(tbl, clock)

payout_twice(tbl, txs, clock, task) ==
    add_transaction(add_transaction(txs, clock, adjusted_value(tbl, clock, task)),
                    clock, adjusted_value(tbl, clock, task))

payout(tbl, txs, clock, task) ==
    add_transaction(txs, clock, adjusted_value(tbl, clock, task))

\* f64 values that are not numbers or not finite
Infinity == <<1, 0>>
NaN == <<0, 0>>
f64_neg(a) == <<-a[1], a[2]>>

\* f64 addition: exact on finite values, IEEE 754 on the others
f64_add(a, b) ==
    IF a[2] # 0 /\ b[2] # 0 THEN RatAdd(a, b)
    ELSE IF a = NaN \/ b = NaN THEN NaN
    ELSE IF a[2] # 0 THEN b
    ELSE IF b[2] # 0 THEN a
    ELSE IF a = b THEN a
    ELSE NaN

RECURSIVE funds_loop_added_only(_, _)
funds_loop_added_only(rows, total_funds) ==
    IF rows = <<>> THEN total_funds
    ELSE LET transaction == Head(rows)
         IN  funds_loop_added_only(Tail(rows),
                 IF is_some(transaction[2])
                 THEN f64_add(total_funds, unwrap(transaction[2]))
                 ELSE total_funds)

\* finance.rs:84-89, the loop over the transactions
RECURSIVE funds_loop(_, _)
funds_loop(rows, total_funds) ==
    IF rows = <<>> THEN total_funds
    ELSE LET transaction == Head(rows)
         IN  funds_loop(Tail(rows),
                 IF is_some(transaction[2])
                 THEN f64_add(total_funds, unwrap(transaction[2]))
                 ELSE f64_add(total_funds, f64_neg(unwrap(transaction[3]))))

calc_funds(txs) == funds_loop(read_transactions(txs), FromInt(0))

----------------------------------------------------------------------------
(* ui.rs: the prompts that build a new task.  A prompt repeats until the   *)
(* input is accepted; the operators take the accepted input.               *)

request_recurring_details_accepts(num) == num > 0
request_recurring_details(num) == Some(num)

request_deadline_details_accepts_any_lead(days_until_deadline, lead_days) ==
    days_until_deadline >= 0 /\ lead_days >= 0

request_deadline_details_accepts(days_until_deadline, lead_days) ==
    days_until_deadline >= 0 /\ lead_days > 0

request_deadline_details(clock, days_until_deadline, lead_days) ==
    <<Some(clock + DurationDays(days_until_deadline)), Some(lead_days)>>

request_task_input(clock, priority, task_type, num, days_until_deadline, lead_days) ==
    LET repeat_interval == IF task_type = 2 THEN request_recurring_details(num) ELSE None
        details == IF task_type = 3
                   THEN request_deadline_details(clock, days_until_deadline, lead_days)
                   ELSE <<None, None>>
    IN  Task(0, FALSE, details[1], clock, details[2], priority, repeat_interval, 0, 0)

\* ui.rs:556-563: a parsed amount other than 0.0 is appended with its sign
\* turned; any other input leaves the ledger alone
request_transaction(txs, clock, selection) ==
    IF is_some(selection) /\ unwrap(selection) # FromInt(0)
    THEN add_transaction(txs, clock, RatMul(unwrap(selection), FromInt(-1)))
    ELSE txs

----------------------------------------------------------------------------
(* The selection cycle (specification sections 4.2 and 4.5): rank the      *)
(* active tasks, present the first SelectorK, pay out the chosen one.      *)

SelectorK == 5

Weight(task, clock) == calculate_weight(task, clock).w

RECURSIVE InsertByWeight_unstable(_, _, _)
InsertByWeight_unstable(sorted, task, clock) ==
    IF sorted = <<>> THEN <<task>>
    ELSE IF ~RatLess(Weight(task, clock), Weight(Head(sorted), clock))
    THEN <<task>> \o sorted
    ELSE <<Head(sorted)>> \o InsertByWeight_unstable(Tail(sorted), task, clock)

\* insert task after every element that does not weigh less: stable, descending
RECURSIVE InsertByWeight(_, _, _)
InsertByWeight(sorted, task, clock) ==
    IF sorted = <<>> THEN <<task>>
    ELSE IF RatLess(Weight(Head(sorted), clock), Weight(task, clock))
    THEN <<task>> \o sorted
    ELSE <<Head(sorted)>> \o InsertByWeight(Tail(sorted), task, clock)

RECURSIVE SortByWeight(_, _)
SortByWeight(list, clock) ==
    IF list = <<>> THEN <<>>
    ELSE InsertByWeight(SortByWeight(SubSeq(list, 1, Len(list) - 1), clock),
                        list[Len(list)], clock)

select(list, clock, k) ==
    LET ranked == SortByWeight(list, clock)
    IN  SubSeq(ranked, 1, IF Len(ranked) < k THEN Len(ranked) ELSE k)

RECURSIVE record_shown(_, _)
record_shown(tbl, shown) ==
    IF shown = <<>> THEN tbl
    ELSE record_shown(increment_times_shown(tbl, Head(shown).id, Head(shown).times_shown),
                      Tail(shown))

----------------------------------------------------------------------------
(* Actions of a session *)

HalfDay == Day \div 2
StartNow == Day
MaxNow == StartNow + MaxDays * Day

\* time passes between two operations
Tick ==
    /\ now + HalfDay <= MaxNow
    /\ now' = now + HalfDay
    /\ UNCHANGED <<tasks, transactions, presented, last, settings>>

\* ui::request_task_input, then db::add_task
AddTask(priority, task_type, num, days_until_deadline, lead_days) ==
    /\ presented = <<>>
    /\ Len(tasks) < MaxTasks
    /\ task_type = 2 => request_recurring_details_accepts(num)
    /\ task_type = 3 => request_deadline_details_accepts(days_until_deadline, lead_days)
    /\ tasks' = add_task(tasks, request_task_input(now, priority, task_type, num,
                                                   days_until_deadline, lead_days))
    /\ UNCHANGED <<now, transactions, presented, last, settings>>

\* a show cycle: the ranked short list with its bounties; times_shown recorded
Show ==
    /\ presented = <<>>
    /\ LET top == select(read_active_tasks(tasks, now), now, SelectorK)
       IN  /\ top # <<>>
           /\ \A j \in 1..Len(top) : top[j].times_shown < MaxShown
           /\ tasks' = record_shown(tasks, top)
           /\ presented' = [j \in 1..Len(top) |->
                               [task |-> top[j],
                                bounty |-> adjusted_value(tasks, now, top[j])]]
    /\ UNCHANGED <<now, transactions, last, settings>>

\* the user picks presented entry j: payout, times_selected, archive or reschedule
Select(j) ==
    /\ j \in 1..Len(presented)
    /\ Len(transactions) < MaxTransactions
    /\ LET task == presented[j].task
           counted == increment_times_selected(tasks, task.id, task.times_selected)
       IN  /\ transactions' = payout(tasks, transactions, now, task)
           /\ tasks' = IF is_none(task.repeat_interval)
                       THEN archive_task(counted, task.id)
                       ELSE reset_from_date(counted, now, task.id)
    /\ presented' = <<>>
    /\ UNCHANGED <<now, last, settings>>

Init ==
    /\ now = StartNow
    /\ tasks = <<>>
    /\ transactions = <<>>
    /\ presented = <<>>
    /\ last = NoCall
    /\ settings = default_settings

PromptPriority == {"P1", "P2"}

Next ==
    \/ Tick
    \/ \E priority \in PromptPriority, task_type \in 1..3, num \in 0..MaxPromptInterval,
          days_until_deadline \in 0..MaxPromptDays, lead_days \in 0..MaxPromptLead :
          AddTask(priority, task_type, num, days_until_deadline, lead_days)
    \/ Show
    \/ \E j \in 1..SelectorK : Select(j)

Spec == Init /\ [][Next]_vars

----------------------------------------------------------------------------
(* Bounty specification: any stored task list, base_value called at any    *)
(* instant not before the tasks' anchor dates; a task without a repeat     *)
(* interval may be archived, as its selection does                         *)

BaseValue ==
    /\ last' = [op |-> "base_value", tasks |-> tasks, now |-> now,
                target |-> read_settings[1],
                monthly |-> calc_monthly_tasks(tasks, now),
                value |-> base_value(tasks, now)]
    /\ UNCHANGED <<now, tasks, transactions, presented, settings>>

\* the shapes of a stored task that the estimate can tell apart: one-off, due,
\* and repeating with an interval that divides 30, that does not, that exceeds it
EstimateShapes ==
    {<<None, None, None>>, <<Some(MaxDueDate), Some(1), None>>,
     <<None, None, Some(7)>>, <<None, None, Some(30)>>, <<None, None, Some(31)>>}

EstimateTasks ==
    {Task(0, FALSE, shape[1], from, shape[2], "P1", shape[3], 0, 0) :
        shape \in EstimateShapes,
        from \in {0, MaxFromDate}}

RECURSIVE StoreAll(_, _)
StoreAll(tbl, list) ==
    IF list = <<>> THEN tbl ELSE StoreAll(add_task(tbl, Head(list)), Tail(list))

EstimateInit ==
    /\ now \in MaxFromDate..MaxWeightNow + Day
    /\ \E n \in 0..MaxEstimateTasks :
          tasks \in {StoreAll(<<>>, list) : list \in [1..n -> EstimateTasks]}
    /\ transactions = <<>>
    /\ presented = <<>>
    /\ last = NoCall
    /\ settings = default_settings

\* db::archive_task on stored task i, called for a task with no repeat interval
ArchiveTask(i) ==
    /\ is_none(tasks[i].repeat_interval)
    /\ ~tasks[i].is_archived
    /\ tasks' = archive_task(tasks, tasks[i].id)
    /\ UNCHANGED <<now, transactions, presented, last, settings>>

EstimateNext ==
    \/ BaseValue
    \/ \E i \in 1..Len(tasks) : ArchiveTask(i)

SpecEstimate == EstimateInit /\ [][EstimateNext]_vars

----------------------------------------------------------------------------
(* Bounty and ledger specifications: a database that earlier sessions have *)
(* filled, with the target allowance its settings table holds               *)

\* the target_monthly_allowance values of the settings table
TargetAllowances == {target_monthly_allowance, 23, 1}

Repeating(r, selected, shown) == Task(0, FALSE, None, 0, None, "P0", Some(r), selected, shown)

\* stored task lists: none; one repeating task slower than monthly; two weekly
\* tasks; a daily and a three-daily task; seven daily tasks; a selected (so
\* archived) due task with a repeating task and a one-off task
BountyLists ==
    {<<>>,
     <<Repeating(31, 0, 0)>>,
     <<Repeating(7, 0, 0), Repeating(7, 0, 0)>>,
     <<Repeating(1, 0, 0), Repeating(3, 0, 0)>>,
     [i \in 1..7 |-> Repeating(1, 0, 0)],
     <<Task(0, TRUE, Some(MaxDueDate), 0, Some(1), "P3", None, 1, 2),
       Repeating(7, 2, 3),
       Task(0, FALSE, None, 0, None, "P2", None, 0, 1)>>}

BountyStores == {StoreAll(<<>>, list) : list \in BountyLists}

\* finance::adjusted_value for stored task i
AdjustedValue(i) ==
    /\ last' = [op |-> "adjusted_value", tasks |-> tasks, now |-> now,
                task |-> tasks[i],
                value |-> adjusted_value(tasks, now, tasks[i])]
    /\ UNCHANGED <<now, tasks, transactions, presented, settings>>

BountyInit ==
    /\ now = StartNow
    /\ tasks \in BountyStores
    /\ transactions = <<>>
    /\ presented = <<>>
    /\ last = NoCall
    /\ settings \in {[default_settings EXCEPT !.target_monthly_allowance = target] :
                        target \in TargetAllowances}

BountyNext ==
    \/ Tick
    \/ BaseValue
    \/ \E i \in 1..Len(tasks) : AdjustedValue(i)

SpecBounty == BountyInit /\ [][BountyNext]_vars

\* finance::payout for stored task i
Payout(i) ==
    /\ Len(transactions) < MaxLedger
    /\ transactions' = payout(tasks, transactions, now, tasks[i])
    /\ last' = [op |-> "payout", tasks |-> tasks, now |-> now, task |-> tasks[i],
                monthly |-> calc_monthly_tasks(tasks, now),
                price |-> adjusted_value(tasks, now, tasks[i]),
                before |-> transactions]
    /\ UNCHANGED <<now, tasks, presented, settings>>

\* what the user may type at the spend prompt: text that does not parse, zero,
\* a negative amount and positive amounts
SpendInputs == {None, Some(FromInt(0)), Some(<<-201, 2>>), Some(<<183, 4>>), Some(FromInt(1))}

\* ui::request_transaction
Spend(selection) ==
    /\ Len(transactions) < MaxLedger
    /\ transactions' = request_transaction(transactions, now, selection)
    /\ last' = [op |-> "request_transaction", now |-> now, selection |-> selection,
                before |-> transactions]
    /\ UNCHANGED <<now, tasks, presented, settings>>

\* finance::calc_funds
CalcFunds ==
    /\ last' = [op |-> "calc_funds", transactions |-> transactions,
                value |-> calc_funds(transactions)]
    /\ UNCHANGED <<now, tasks, transactions, presented, settings>>

LedgerNext ==
    \/ \E i \in 1..Len(tasks) : Payout(i)
    \/ \E selection \in SpendInputs : Spend(selection)
    \/ CalcFunds

SpecLedger == BountyInit /\ [][LedgerNext]_vars

----------------------------------------------------------------------------
(* Selector specification: select applied to any list of distinct stored   *)
(* tasks, at an instant at which the repeating tasks of the pool are       *)
(* eligible                                                                *)

SelectNow == Day + HalfDay

\* seven tasks of pairwise different weight at SelectNow, lightest first
SelectSeven ==
    <<Task(0, FALSE, Some(MaxDueDate), 0, Some(1), "P1", None, 0, 0),
      Task(0, FALSE, None, 0, None, "P0", None, 0, 0),
      Task(0, FALSE, None, 0, None, "P0", Some(1), 0, 0),
      Task(0, FALSE, None, 0, None, "P1", None, 0, 0),
      Task(0, FALSE, None, 0, None, "P2", None, 0, 0),
      Task(0, FALSE, None, 0, None, "P3", None, 0, 0),
      Task(0, FALSE, None, 0, None, "P3", Some(1), 0, 0)>>

\* the seven, and an eighth task that weighs what the fourth does
SelectPool ==
    {SelectSeven[i] : i \in 1..7} \cup {Task(0, FALSE, None, 0, None, "P1", None, 0, 1)}

\* the sequences of at most n different elements of S
RECURSIVE Arrangements(_, _)
Arrangements(S, n) ==
    IF n = 0 THEN {<<>>}
    ELSE {<<>>} \cup UNION {{<<x>> \o rest : rest \in Arrangements(S \ {x}, n - 1)} : x \in S}

Reversed(list) == [i \in 1..Len(list) |-> list[Len(list) + 1 - i]]

Rotations(list) ==
    {[i \in 1..Len(list) |-> list[((i + r - 1) % Len(list)) + 1]] : r \in 0..(Len(list) - 1)}

\* the lists handed to select: every short arrangement of the pool, and the
\* seven in every rotation of their ascending and of their descending order
SelectLists ==
    Arrangements(SelectPool, MaxSelectLen)
        \cup Rotations(SelectSeven) \cup Rotations(Reversed(SelectSeven))

SelectInit ==
    /\ now = SelectNow
    /\ tasks \in {StoreAll(<<>>, list) : list \in SelectLists}
    /\ transactions = <<>>
    /\ presented = <<>>
    /\ last = NoCall
    /\ settings = default_settings

\* the values of k a caller passes: a short list and the default
SelectorKs == {2, SelectorK}

\* Selector.select on the stored tasks
SelectTop(k) ==
    /\ last' = [op |-> "select", list |-> tasks, now |-> now, k |-> k,
                res |-> select(tasks, now, k)]
    /\ UNCHANGED <<now, tasks, transactions, presented, settings>>

SelectNext == \E k \in SelectorKs : SelectTop(k)

SpecSelect == SelectInit /\ [][SelectNext]_vars

----------------------------------------------------------------------------
(* Cycle specification: show and select cycles, spending and the passing   *)
(* of time over a database that holds more tasks than one short list, or   *)
(* finished tasks, one less than the session's bound, so that a task can   *)
(* be added                                                                *)

\* a one-off task that was shown, selected and so archived
Finished == Task(0, TRUE, None, 0, None, "P0", None, 1, 1)

CycleLists ==
    {SelectSeven, [i \in 1..(MaxTasks - 1) |-> Finished]}

\* the last half day of the session's clock
CycleStart == MaxNow - HalfDay

CycleInit ==
    /\ now = CycleStart
    /\ tasks \in {StoreAll(<<>>, list) : list \in CycleLists}
    /\ transactions = <<>>
    /\ presented = <<>>
    /\ last = NoCall
    /\ settings = default_settings

\* what the user types at the spend prompt during a cycle
CycleSpendInputs == {Some(FromInt(0)), Some(FromInt(1))}

CycleNext ==
    \/ Tick
    \/ \E priority \in PromptPriority, task_type \in 1..3, num \in 0..MaxPromptInterval,
          days_until_deadline \in 0..MaxPromptDays, lead_days \in 0..MaxPromptLead :
          AddTask(priority, task_type, num, days_until_deadline, lead_days)
    \/ Show
    \/ \E j \in 1..SelectorK : Select(j)
    \/ \E selection \in CycleSpendInputs :
          Len(transactions) < MaxTransactions /\ Spend(selection)

SpecCycle == CycleInit /\ [][CycleNext]_vars

----------------------------------------------------------------------------
(* Reschedule specification: show and select cycles, with the passing of   *)
(* time, over a database of repeating tasks and a one-off task, from the   *)
(* first day on, so that a selected repeating task comes back              *)

RescheduleLists ==
    {<<Task(0, FALSE, None, 0, None, "P1", Some(1), 0, 0)>>,
     <<Task(0, FALSE, None, 0, None, "P1", Some(1), 0, 0),
       Task(0, FALSE, None, 0, None, "P2", Some(2), 0, 0)>>,
     <<Task(0, FALSE, None, 0, None, "P1", Some(1), 0, 0),
       Task(0, FALSE, None, 0, None, "P0", None, 0, 0)>>}

RescheduleInit ==
    /\ now = StartNow
    /\ tasks \in {StoreAll(<<>>, list) : list \in RescheduleLists}
    /\ transactions = <<>>
    /\ presented = <<>>
    /\ last = NoCall
    /\ settings = default_settings

RescheduleNext ==
    \/ Tick
    \/ Show
    \/ \E j \in 1..SelectorK : Select(j)

SpecReschedule == RescheduleInit /\ [][RescheduleNext]_vars

----------------------------------------------------------------------------
(* Store specification: db::add_task called with any Task value, on a      *)
(* tasks table that starts empty                                           *)

\* Task values of every mode, archived or not, with counters set or not, and
\* with an id field that is 0, that a stored row has, or that no row has
AddedTasks ==
    {Task(id, archived, shape[1], 0, shape[2], prio, shape[3], counter, counter) :
        id \in {0, 1, MaxTasks + 2},
        archived \in BOOLEAN,
        shape \in {<<None, None, None>>, <<Some(MaxDueDate), Some(1), None>>,
                   <<None, None, Some(7)>>},
        prio \in {"P0", "P3"},
        counter \in {0, 1}}

\* db::add_task
AddAny(task) ==
    /\ Len(tasks) < MaxTasks
    /\ tasks' = add_task(tasks, task)
    /\ last' = [op |-> "add_task", task |-> task, before |-> tasks,
                calls |-> IF last.op = "add_task" THEN last.calls + 1 ELSE 1]
    /\ UNCHANGED <<now, transactions, presented, settings>>

StoreNext == \E task \in AddedTasks : AddAny(task)

SpecStore == Init /\ [][StoreNext]_vars

----------------------------------------------------------------------------
(* Scoring *)

\* a caller scores stored task i at the current instant
CalculateWeight(i) ==
    /\ last' = [op |-> "calculate_weight", task |-> tasks[i], now |-> now,
                res |-> calculate_weight(tasks[i], now)]
    /\ UNCHANGED <<now, tasks, transactions, presented, settings>>

----------------------------------------------------------------------------
(* Scoring specification: one stored task of any shape the tasks table can *)
(* hold (db::add_task stores the Task it is given), scored at any instant  *)

WeightTasks ==
    {Task(1, FALSE, due, from, lead, prio, repeat, 0, 0) :
        due \in OptionOf(TicksPerSec..MaxDueDate),
        from \in 0..MaxFromDate,
        lead \in OptionOf(1..MaxLead),
        prio \in Priority,
        repeat \in OptionOf(1..MaxInterval)}

WeightInit ==
    /\ now \in TicksPerSec..MaxWeightNow
    /\ tasks \in {<<t>> : t \in WeightTasks}
    /\ transactions = <<>>
    /\ presented = <<>>
    /\ last = NoCall
    /\ settings = default_settings

WeightNext == \E i \in 1..Len(tasks) : CalculateWeight(i)

SpecWeight == WeightInit /\ [][WeightNext]_vars

----------------------------------------------------------------------------
(* Dominance specification: a due task that is never selected, stored with *)
(* a one-off and a repeating task, scored while the clock runs on          *)

\* the due task first: lead windows of one day, of MaxLead days and of
\* MaxDominanceLead days, at the lowest and at the highest priority
DominanceLists ==
    {<<Task(0, FALSE, Some(MaxDueDate), 0, Some(lead), prio, None, 0, 0),
       Task(0, FALSE, None, 0, None, "P3", None, 0, 0),
       Task(0, FALSE, None, 0, None, "P3", Some(1), 0, 0)>> :
        lead \in {1, MaxLead, MaxDominanceLead}, prio \in {"P0", "P3"}}

DominanceEnd == StartNow + MaxDominanceDays * Day

DominanceInit ==
    /\ now = StartNow
    /\ tasks \in {StoreAll(<<>>, list) : list \in DominanceLists}
    /\ transactions = <<>>
    /\ presented = <<>>
    /\ last = NoCall
    /\ settings = default_settings

\* time passes between two scoring calls
Elapse ==
    /\ now + HalfDay <= DominanceEnd
    /\ now' = now + HalfDay
    /\ UNCHANGED <<tasks, transactions, presented, last, settings>>

DominanceNext ==
    \/ Elapse
    \/ \E i \in 1..Len(tasks) : CalculateWeight(i)

\* the clock does not stop
SpecDominance == DominanceInit /\ [][DominanceNext]_vars /\ WF_vars(Elapse)

----------------------------------------------------------------------------
(* Properties of the weight engine (checked under SpecWeight) *)

Scored == last.op = "calculate_weight"
ScoredValue == Scored /\ last.res.kind = "value"

\* the multiplier table as the specification states it
m(prio) == CASE prio = "P0" -> 2 [] prio = "P1" -> 3 [] prio = "P2" -> 5 [] prio = "P3" -> 8

Rank(prio) == CASE prio = "P0" -> 0 [] prio = "P1" -> 1 [] prio = "P2" -> 2 [] prio = "P3" -> 3

\* the quantities the specification's formulas are written in
now_s == timestamp(last.now)
due_s == timestamp(unwrap(last.task.due_date))
lead_s == unwrap(last.task.lead_days) * SecsPerDay
from_date_s == timestamp(last.task.from_date)
eligible_s == from_date_s + unwrap(last.task.repeat_interval) * SecsPerDay
\* the instant a repeating task's interval has elapsed
eligible == last.task.from_date + unwrap(last.task.repeat_interval) * Day

IsDue(t) == is_some(t.due_date)
IsRepeating(t) == is_none(t.due_date) /\ is_some(t.repeat_interval)
IsOneOff(t) == is_none(t.due_date) /\ is_none(t.repeat_interval)

\* C1: calculate_weight classifies before scoring: a task with a due date is
\* scored by the due-task formula (also when it has a repeat interval), else a
\* task with a repeat interval by the repeating-task formula, else by the
\* one-off formula; exactly one formula scores each task.
C1_Classification ==
    Scored =>
        /\ last.res.by \in {"due", "repeat", "oneoff"}
        /\ (IsDue(last.task) <=> last.res.by = "due")
        /\ (IsRepeating(last.task) <=> last.res.by = "repeat")
        /\ (IsOneOff(last.task) <=> last.res.by = "oneoff")
        /\ (IsDue(last.task) => last.res = weight_due_task(last.task, last.now))

C1_Witness ==
    /\ Scored
    /\ is_some(last.task.due_date) /\ is_some(last.task.repeat_interval)
    /\ last.res.by = "due" /\ last.res.kind = "value"

\* C2: for a due task with lead_days present, the weight is
\* (now_s / (due_s - lead_s)) * m(priority) while now_s <= due_s - lead_s and
\* (1 + 100 * (now_s - due_s + lead_s) / lead_s) * m(priority) afterwards.
C2_DueFormula ==
    (Scored /\ IsDue(last.task) /\ is_some(last.task.lead_days)) =>
        /\ last.res.kind = "value"
        /\ IF now_s <= due_s - lead_s
           THEN last.res.w = Frac(now_s * m(last.task.priority), due_s - lead_s)
           ELSE last.res.w = Frac((lead_s + 100 * (now_s - due_s + lead_s))
                                      * m(last.task.priority), lead_s)

C2_Witness ==
    /\ ScoredValue /\ IsDue(last.task)
    /\ now_s > due_s - lead_s + 1
    /\ last.res.w = Frac((lead_s + 100 * (now_s - due_s + lead_s))
                             * m(last.task.priority), lead_s)

\* the repeating-task formula m * (0.667 * (now_s / eligible_s) + 0.333)
RepeatFormula == Frac(m(last.task.priority) * (667 * now_s + 333 * eligible_s),
                      1000 * eligible_s)

\* C3 as stated: a repeating task weighs 0 when now_s < eligible_s and
\* m * (0.667 * (now_s / eligible_s) + 0.333) for every now_s >= eligible_s,
\* the instant now_s == eligible_s included.
C3_Original ==
    (Scored /\ IsRepeating(last.task)) =>
        /\ (now_s < eligible_s => last.res.w = FromInt(0))
        /\ (now_s >= eligible_s => last.res.w = RepeatFormula)

\* C3 amended: a repeating task weighs exactly 0 as long as now is not after
\* the instant eligible = from_date + repeat_interval days (so for every
\* now_s < eligible_s and also at the instant now == eligible), and
\* m * (0.667 * (now_s / eligible_s) + 0.333) once now is after that instant.
C3_RepeatFormula ==
    (Scored /\ IsRepeating(last.task)) =>
        /\ last.res.kind = "value"
        /\ (now_s < eligible_s => last.res.w = FromInt(0))
        /\ (last.now = eligible => last.res.w = FromInt(0))
        /\ (last.now > eligible => last.res.w = RepeatFormula)

C3_Witness ==
    /\ ScoredValue /\ IsRepeating(last.task)
    /\ last.now > eligible /\ now_s = eligible_s
    /\ last.res.w = FromInt(m(last.task.priority))

\* C4: a one-off task weighs
\* m * (0.667 * (now_s / (from_date_s + 20 * 86400)) + 1.0) at every now.
C4_OneOffFormula ==
    (Scored /\ IsOneOff(last.task)) =>
        /\ last.res.kind = "value"
        /\ last.res.w = Frac(m(last.task.priority)
                                 * (667 * now_s + 1000 * (from_date_s + 20 * SecsPerDay)),
                             1000 * (from_date_s + 20 * SecsPerDay))

C4_Witness ==
    /\ ScoredValue /\ IsOneOff(last.task)
    /\ last.task.priority = "P2"
    /\ last.task.from_date % TicksPerSec # 0
    /\ RatLess(FromInt(5), last.res.w)

MultiplierTable ==
    \A t \in WeightTasks : adjust_for_priority(t) = FromInt(m(t.priority))

\* the same task at another priority
WithPriority(t, p) == [t EXCEPT !.priority = p]

\* C5 as stated: the multipliers are 2, 3, 5, 8 and, of two tasks that differ
\* only in priority, the one of higher rank weighs strictly more, in every mode.
C5_Original ==
    /\ MultiplierTable
    /\ ScoredValue =>
          \A p \in Priority :
              Rank(p) > Rank(last.task.priority) =>
                  RatLess(last.res.w, calculate_weight(WithPriority(last.task, p), last.now).w)

\* C5 amended: the multipliers are 2, 3, 5, 8; of two tasks that differ only
\* in priority and are scored with a non-zero weight, the one of higher rank
\* weighs strictly more; a repeating task whose interval has not elapsed
\* weighs 0 at every priority.
C5_PriorityMonotone ==
    /\ MultiplierTable
    /\ ScoredValue =>
          \A p \in Priority :
              LET other == calculate_weight(WithPriority(last.task, p), last.now)
              IN  /\ other.kind = "value"
                  /\ (last.res.w = FromInt(0) <=> other.w = FromInt(0))
                  /\ (last.res.w = FromInt(0) =>
                          IsRepeating(last.task) /\ last.now <= eligible)
                  /\ (last.res.w # FromInt(0) /\ Rank(p) > Rank(last.task.priority)
                          => RatLess(last.res.w, other.w))

C5_Witness ==
    /\ ScoredValue /\ IsDue(last.task)
    /\ last.task.priority = "P1"
    /\ now_s > due_s - lead_s
    /\ RatLess(last.res.w, calculate_weight(WithPriority(last.task, "P2"), last.now).w)

\* C6 as stated: a repeating task with from_date + repeat_interval days < now
\* weighs exactly 0.
C6_Original ==
    (Scored /\ IsRepeating(last.task) /\ eligible < last.now) =>
        last.res.w = FromInt(0)

\* C6 amended: a repeating task with from_date + repeat_interval days >= now
\* (interval not yet elapsed) weighs exactly 0.
C6_CooldownZero ==
    (Scored /\ IsRepeating(last.task) /\ eligible >= last.now) =>
        (last.res.kind = "value" /\ last.res.w = FromInt(0))

C6_Witness ==
    /\ ScoredValue /\ IsRepeating(last.task)
    /\ eligible > last.now
    /\ last.res.w = FromInt(0)

AtLeadBoundary ==
    /\ Scored /\ IsDue(last.task) /\ is_some(last.task.lead_days)
    /\ now_s = due_s - lead_s

C8_TypedFailure ==
    (Scored /\ IsDue(last.task) /\ is_none(last.task.lead_days)) =>
        last.res.kind = "InvariantViolation"

----------------------------------------------------------------------------
(* Properties of the bounty calculator *)

\* floor(30 / r) without the division: the q with q * r <= 30 < (q + 1) * r
Floor30(r) == CHOOSE q \in 0..30 : q * r <= 30 /\ 30 < (q + 1) * r

\* what one task adds to the monthly estimate, as the specification states it
Contribution(task, clock) ==
    IF is_some(task.repeat_interval) THEN Floor30(unwrap(task.repeat_interval))
    ELSE IF clock - 3 * Day < task.from_date /\ task.from_date <= clock THEN 1
    ELSE 0

RECURSIVE EstimateOver(_, _)
EstimateOver(population, clock) ==
    IF population = <<>> THEN 0
    ELSE Contribution(population[Len(population)], clock)
            + EstimateOver(SubSeq(population, 1, Len(population) - 1), clock)

NotArchived(task) == ~task.is_archived

C10_Original ==
    last.op = "base_value" =>
        last.monthly = EstimateOver(SelectSeq(last.tasks, NotArchived), last.now)

\* C10 amended: archived tasks contribute to the monthly estimate like any
\* other stored task: a step that archives a task leaves the estimate and the
\* value base_value computes from it unchanged, so the payout depends on
\* archived tasks too.
C10_ArchivedCounted ==
    [][\A i \in 1..Len(tasks) :
          (~tasks[i].is_archived /\ tasks'[i].is_archived) =>
              /\ calc_monthly_tasks(tasks', now') = calc_monthly_tasks(tasks, now)
              /\ base_value(tasks', now') = base_value(tasks, now)]_vars

C10_Witness ==
    /\ last.op = "base_value"
    /\ Len(last.tasks) = 2
    /\ last.tasks[1].is_archived /\ IsOneOff(last.tasks[1])
    /\ last.tasks[1].from_date + 3 * Day > last.now
    /\ last.tasks[2].repeat_interval = Some(31)
    /\ last.monthly = 1
    /\ last.value = FromInt(target_monthly_allowance)

\* a money amount that is a number: neither infinite nor not-a-number
IsFinite(x) == x[2] # 0

\* the amount a stored transaction carries
Populated(tx) == IF is_some(tx.funds_added) THEN unwrap(tx.funds_added)
                 ELSE unwrap(tx.funds_subtracted)

\* C11: when the monthly task estimate is 0 the payout computation gets a
\* recoverable error instead of an amount: base_value never yields an infinite
\* or not-a-number amount, the payout appends nothing, and no transaction with
\* such an amount is ever in the ledger.
C11_ZeroEstimateError ==
    /\ (last.op = "payout" /\ last.monthly = 0) =>
           (IsFinite(last.price) /\ transactions = last.before)
    /\ \A i \in 1..Len(transactions) : IsFinite(Populated(transactions[i]))

\* target / monthly rounded to whole cents, halves away from zero, in cents
ExactCents(target, monthly) == (200 * target + monthly) \div (2 * monthly)

\* C12: for every target allowance and every non-zero monthly task estimate,
\* base_value is target / estimate rounded to whole cents, halves away from
\* zero; target 400 with estimate 8 gives 50.00.
C12_RoundedToCents ==
    (last.op = "base_value" /\ last.monthly # 0) =>
        last.value = Frac(ExactCents(last.target, last.monthly), 100)

\* tasks that differ from a stored task in counters, priority and mode
Variants(task) ==
    {[task EXCEPT !.times_shown = shown, !.times_selected = selected,
                  !.priority = prio, !.repeat_interval = repeat] :
        shown \in 0..MaxShown, selected \in 0..MaxShown,
        prio \in Priority, repeat \in OptionOf(1..MaxInterval)}

\* C13: adjusted_value passes base_value through: for one store state its
\* result is the same for every task, whatever the task's times_shown,
\* times_selected, priority and mode.
C13_PassThrough ==
    last.op = "adjusted_value" =>
        /\ last.value = base_value(last.tasks, last.now)
        /\ \A j \in 1..Len(last.tasks) :
              adjusted_value(last.tasks, last.now, last.tasks[j]) = last.value
        /\ \A t \in Variants(last.task) :
              adjusted_value(last.tasks, last.now, t) = last.value

C13_Witness ==
    /\ last.op = "adjusted_value"
    /\ last.task.times_shown = 3 /\ last.task.times_selected = 2
    /\ calc_monthly_tasks(last.tasks, last.now) = 6
    /\ read_settings[1] = 400
    /\ last.value = <<6667, 100>>

\* the transaction the ledger is to record for an appended amount
LedgerRecord(clock, amount) ==
    IF amount[1] >= 0
    THEN [date |-> clock, funds_added |-> Some(amount), funds_subtracted |-> None]
    ELSE [date |-> clock, funds_added |-> None, funds_subtracted |-> Some(f64_neg(amount))]

\* the amount the last operation handed to the ledger, if it handed one
Appended ==
    IF last.op = "payout" THEN Some(last.price)
    ELSE IF last.op = "request_transaction" /\ is_some(last.selection)
            /\ unwrap(last.selection) # FromInt(0)
    THEN Some(f64_neg(unwrap(last.selection)))
    ELSE None

RECURSIVE SumAdded(_)
SumAdded(txs) ==
    IF txs = <<>> THEN FromInt(0)
    ELSE f64_add(SumAdded(Tail(txs)), unwrap_or(Head(txs).funds_added, FromInt(0)))

RECURSIVE SumSubtracted(_)
SumSubtracted(txs) ==
    IF txs = <<>> THEN FromInt(0)
    ELSE f64_add(SumSubtracted(Tail(txs)), unwrap_or(Head(txs).funds_subtracted, FromInt(0)))

Permuted(txs, p) == [i \in 1..Len(txs) |-> txs[p[i]]]

----------------------------------------------------------------------------
(* Properties of the selector *)

\* the weight the engine gives element i of the list handed to select
ListWeight(i) == calculate_weight(last.list[i], last.now).w

\* the place of element i in a stable descending sort: after every heavier
\* element and after every earlier element of the same weight
Place(i) ==
    1 + Cardinality({j \in 1..Len(last.list) : RatLess(ListWeight(i), ListWeight(j))})
      + Cardinality({j \in 1..(i - 1) : ListWeight(j) = ListWeight(i)})

DistinctWeights ==
    \A i, j \in 1..Len(last.list) : i # j => ListWeight(i) # ListWeight(j)

\* C17: select(tasks, now, k) returns the first min(k, n) elements of the
\* tasks sorted by weight, descending and stable: never more than k, the top 5
\* in descending order of 7 tasks of distinct weights, tasks of identical
\* weight in their input order.
C17_TopK ==
    last.op = "select" =>
        /\ Len(last.res) = IF Len(last.list) < last.k THEN Len(last.list) ELSE last.k
        /\ \A i \in 1..Len(last.list) :
              Place(i) <= last.k => last.res[Place(i)] = last.list[i]
        /\ \A j \in 1..(Len(last.res) - 1) :
              ~RatLess(calculate_weight(last.res[j], last.now).w,
                       calculate_weight(last.res[j + 1], last.now).w)

C17_Witness ==
    /\ last.op = "select" /\ last.k = 5
    /\ Len(last.list) = 7 /\ DistinctWeights
    /\ Len(last.res) = 5
    /\ Place(1) = 7 /\ Place(7) = 1
    /\ last.res[1] = last.list[7]
    /\ \A j \in 1..4 : RatLess(calculate_weight(last.res[j + 1], last.now).w,
                               calculate_weight(last.res[j], last.now).w)

----------------------------------------------------------------------------
(* Properties of the ledger log and of the selection cycle *)

\* C16: the transaction log is append-only: whatever the operation (payout,
\* spend, task addition, show, selection with its archiving or rescheduling,
\* passing of time), every recorded transaction stays in the log at its place
\* with its timestamp and amount, and the log reads back in insertion order.
C16_AppendOnly ==
    [][/\ Len(transactions') >= Len(transactions)
       /\ \A i \in 1..Len(transactions) :
             /\ transactions'[i] = transactions[i]
             /\ read_transactions(transactions')[i] = read_transactions(transactions)[i]
       /\ \A i \in (Len(transactions) + 1)..Len(transactions') :
             /\ transactions'[i].date = now
             /\ read_transactions(transactions')[i][1] = now]_vars

C16_Witness ==
    /\ Len(transactions) = 2
    /\ transactions[1].date < transactions[2].date
    /\ transactions[1].funds_added = Some(<<667, 100>>)
    /\ transactions[2].funds_subtracted = Some(FromInt(1))
    /\ \E i \in 1..Len(tasks) : tasks[i].is_archived /\ tasks[i].times_selected = 1
    /\ presented # <<>>

\* a step that shows a short list, and a step that selects from one
Showing == presented = <<>> /\ presented' # <<>>
Selecting == presented # <<>> /\ presented' = <<>>

\* the ids of the tasks of a presented list
PresentedIds(list) == {list[j].task.id : j \in 1..Len(list)}

\* C18: a show cycle adds exactly one to times_shown of every task of the
\* returned top-k list and leaves every other stored task, the rest of the
\* candidate pool included, and every other field as they are.
C18_ShownOnce ==
    [][Showing =>
          /\ Len(presented') <= SelectorK
          /\ Len(tasks') = Len(tasks)
          /\ \A i \in 1..Len(tasks) :
                tasks'[i] = IF tasks[i].id \in PresentedIds(presented')
                            THEN [tasks[i] EXCEPT !.times_shown = tasks[i].times_shown + 1]
                            ELSE tasks[i]
          /\ Cardinality(PresentedIds(presented')) = Len(presented')]_vars

C18_Witness ==
    /\ Len(presented) = SelectorK
    /\ Len(read_active_tasks(tasks, now)) = 7
    /\ \A i \in 1..Len(tasks) :
          tasks[i].times_shown = IF tasks[i].id \in PresentedIds(presented) THEN 1 ELSE 0

RECURSIVE SumSelected(_)
SumSelected(tbl) ==
    IF tbl = <<>> THEN 0 ELSE Head(tbl).times_selected + SumSelected(Tail(tbl))

\* C19: a selection of a presented task adds exactly one to that task's
\* times_selected and appends exactly one payout transaction, of amount
\* adjusted_value(task); no other step changes a times_selected, so the
\* payouts in the ledger are as many as the times_selected of all tasks.
C19_OnePayout ==
    [][/\ Selecting =>
             \E j \in 1..Len(presented) :
                 /\ transactions' = Append(transactions,
                        LedgerRecord(now, adjusted_value(tasks, now, presented[j].task)))
                 /\ Len(tasks') = Len(tasks)
                 /\ \A i \in 1..Len(tasks) :
                       tasks'[i].times_selected =
                           IF tasks[i].id = presented[j].task.id
                           THEN tasks[i].times_selected + 1
                           ELSE tasks[i].times_selected
                 /\ SumSelected(tasks') = SumSelected(tasks) + 1
       /\ ~Selecting => SumSelected(tasks') = SumSelected(tasks)]_vars

C19_Witness ==
    /\ presented = <<>>
    /\ Len(transactions) = 2
    /\ \A i \in 1..2 : transactions[i].funds_added = Some(<<667, 100>>)
    /\ SumSelected(tasks) = 2
    /\ \A i \in 1..Len(tasks) : tasks[i].times_selected <= 1

\* C20: the selected task, if it has no repeat_interval, becomes archived and
\* keeps its from_date; if it has one, its from_date becomes now and it is not
\* archived; the selection archives and reschedules no other task.
C20_ArchiveOrReschedule ==
    [][Selecting =>
          \E j \in 1..Len(presented) :
              \A i \in 1..Len(tasks) :
                  IF tasks[i].id # presented[j].task.id
                  THEN /\ tasks'[i].is_archived = tasks[i].is_archived
                       /\ tasks'[i].from_date = tasks[i].from_date
                  ELSE IF is_none(tasks[i].repeat_interval)
                  THEN /\ tasks'[i].is_archived
                       /\ tasks'[i].from_date = tasks[i].from_date
                  ELSE /\ ~tasks'[i].is_archived
                       /\ tasks'[i].from_date = now]_vars

C20_Witness ==
    /\ presented = <<>>
    /\ \E i, j \in 1..Len(tasks) :
          /\ is_some(tasks[i].repeat_interval) /\ tasks[i].times_selected = 1
          /\ tasks[i].from_date = now /\ ~tasks[i].is_archived
          /\ is_none(tasks[j].repeat_interval) /\ tasks[j].times_selected = 1
          /\ tasks[j].is_archived /\ tasks[j].from_date = 0
    /\ Cardinality({i \in 1..Len(tasks) : tasks[i].is_archived}) = 1

----------------------------------------------------------------------------
(* Properties of the task lifecycle *)

\* the ids of the tasks of a list
StoredIds(list) == {list[k].id : k \in 1..Len(list)}

\* C21: archived is terminal: an archived task is in no active-task result
\* and in no presented list, and no operation changes its row, so it is never
\* un-archived, shown, selected or paid out again.
C21_ArchivedTerminal ==
    /\ [](\A i \in 1..Len(tasks) :
             tasks[i].is_archived =>
                 /\ tasks[i].id \notin StoredIds(read_active_tasks(tasks, now))
                 /\ tasks[i].id \notin PresentedIds(presented))
    /\ [][\A i \in 1..Len(tasks) :
             tasks[i].is_archived => (Len(tasks') >= i /\ tasks'[i] = tasks[i])]_vars

C21_Witness ==
    /\ presented # <<>>
    /\ now = MaxNow
    /\ Len(tasks) = 7
    /\ \E i \in 1..Len(tasks) :
          /\ tasks[i].is_archived /\ is_none(tasks[i].repeat_interval)
          /\ tasks[i].times_selected = 1 /\ tasks[i].times_shown = 1
          /\ tasks[i].id \notin PresentedIds(presented)
    /\ \E k \in 1..Len(tasks) : tasks[k].times_shown = 2

\* the instant at which the interval of a stored repeating task has elapsed
EligibleAt(task) == task.from_date + DurationDays(unwrap(task.repeat_interval))

\* the task is in the active-task result of the current instant
Active(task) == task.id \in StoredIds(read_active_tasks(tasks, now))

\* a stored task that a selection reschedules
Reschedulable(task) == IsRepeating(task) /\ ~task.is_archived

\* the selection of a repeating task sets its from_date to now and leaves it
\* out of the active-task result, with weight 0, in the state it produces
RescheduledAtNow ==
    Selecting =>
        \A i \in 1..Len(tasks) :
            (IsRepeating(tasks[i]) /\ tasks'[i].times_selected # tasks[i].times_selected) =>
                /\ tasks'[i].from_date = now
                /\ ~tasks'[i].is_archived
                /\ tasks'[i].id \notin StoredIds(read_active_tasks(tasks', now'))
                /\ Weight(tasks'[i], now') = FromInt(0)

\* C22 as stated: a repeating task rescheduled at t (from_date = t) is absent
\* from the active-task result and weighs 0 at every time before t + r days,
\* and from the instant t + r days on it is active with a non-zero weight.
C22_Original ==
    /\ [](\A i \in 1..Len(tasks) :
             Reschedulable(tasks[i]) =>
                 /\ now < EligibleAt(tasks[i]) =>
                        (~Active(tasks[i]) /\ Weight(tasks[i], now) = FromInt(0))
                 /\ now >= EligibleAt(tasks[i]) =>
                        (Active(tasks[i]) /\ Weight(tasks[i], now) # FromInt(0)))
    /\ [][RescheduledAtNow]_vars

\* C22 amended: a repeating task rescheduled at t (from_date = t) is absent
\* from the active-task result and weighs 0 at every time up to and including
\* the instant t + r days, and at every time after that instant it is active
\* with a non-zero weight, so that it can be selected again.
C22_Rescheduled ==
    /\ [](\A i \in 1..Len(tasks) :
             Reschedulable(tasks[i]) =>
                 /\ now <= EligibleAt(tasks[i]) =>
                        (~Active(tasks[i]) /\ Weight(tasks[i], now) = FromInt(0))
                 /\ now > EligibleAt(tasks[i]) =>
                        (Active(tasks[i]) /\ Weight(tasks[i], now) # FromInt(0)))
    /\ [][RescheduledAtNow]_vars

C22_Witness ==
    /\ presented = <<>>
    /\ \E i \in 1..Len(tasks) :
          /\ Reschedulable(tasks[i])
          /\ tasks[i].times_selected = 2
          /\ tasks[i].from_date > 0
          /\ now > EligibleAt(tasks[i])
          /\ Active(tasks[i])
          /\ Weight(tasks[i], now) # FromInt(0)

\* C23: the storage layer and the weight engine agree on eligibility: a
\* non-archived repeating task is returned by read_active_tasks exactly when
\* calculate_weight gives it a non-zero weight, also at the instant
\* now = from_date + repeat_interval days.
C23_LayersAgree ==
    (Scored /\ IsRepeating(last.task) /\ ~last.task.is_archived) =>
        /\ last.res.kind = "value"
        /\ read_active_tasks(<<last.task>>, last.now) \in {<<>>, <<last.task>>}
        /\ (read_active_tasks(<<last.task>>, last.now) = <<last.task>>
               <=> last.res.w # FromInt(0))

C23_Witness ==
    /\ Scored /\ IsRepeating(last.task) /\ ~last.task.is_archived
    /\ last.now = eligible
    /\ read_active_tasks(<<last.task>>, last.now) = <<>>
    /\ last.res.w = FromInt(0)
    /\ read_active_tasks(<<last.task>>, last.now + 1) = <<last.task>>
    /\ calculate_weight(last.task, last.now + 1).w # FromInt(0)

\* the stored due task of the dominance specification, and the other tasks
DueTask == tasks[1]
Others == {tasks[i] : i \in 2..Len(tasks)}

\* at the instant clock the due task weighs strictly more than every other task
DominantAt(clock) ==
    \A other \in Others : RatLess(Weight(other, clock), Weight(DueTask, clock))

\* the lead window of the due task is open at the instant clock, its first
\* second included
WindowOpenAt(clock) ==
    timestamp(clock) >= timestamp(unwrap(DueTask.due_date))
                          - unwrap(DueTask.lead_days) * SecsPerDay

\* from the start of the lead window on, the due task's weight never falls
DueNonDecreasing ==
    WindowOpenAt(now) => ~RatLess(Weight(DueTask, now'), Weight(DueTask, now))

\* the second the weight of a one-off or repeating task is a ratio to
RefSecond(task) ==
    IF is_some(task.repeat_interval)
    THEN timestamp(task.from_date + DurationDays(unwrap(task.repeat_interval)))
    ELSE timestamp(task.from_date + DurationDays(20))

\* the due task's weight gains more per second in its window than the weight
\* of every other task: 100 * m / lead_s > 0.667 * m' / RefSecond
Steeper ==
    \A other \in Others :
        100 * m(DueTask.priority) * 1000 * RefSecond(other)
            > 667 * m(other.priority) * unwrap(DueTask.lead_days) * SecsPerDay

\* C24 as stated: for any due task that stays unselected and any one-off and
\* repeating tasks, from the start of the lead window on the due task's weight
\* is non-decreasing, and there is a time after which it is strictly greater
\* than the weight of every other task, from then on.
C24_Original ==
    /\ [][DueNonDecreasing]_vars
    /\ <>[]DominantAt(now)

\* C24 amended: from the start of the lead window on the due task's weight is
\* non-decreasing; if it gains more per second than every other task,
\* 100 * m(priority) / lead_s > 0.667 * m(priority') / ref_s with ref_s the
\* second the other task's weight is a ratio to, there is a time after which
\* it is strictly greater than the weight of every other task, from then on.
C24_SteeperDominates ==
    /\ [][DueNonDecreasing]_vars
    /\ (Steeper => <>[]DominantAt(now))

C24_Witness ==
    /\ Steeper
    /\ DueTask.priority = "P0" /\ DueTask.lead_days = Some(MaxLead)
    /\ WindowOpenAt(now - HalfDay)
    /\ ~DominantAt(now - HalfDay)
    /\ DominantAt(now)
    /\ last.op = "calculate_weight" /\ last.task = DueTask /\ last.now = now
    /\ RatLess(FromInt(16), last.res.w)

\* C25: a task that is not selected in a cycle is left as it is apart from
\* its times_shown counter, and stays eligible if it was; the selection of a
\* task changes times_selected, the archived flag and from_date of that task
\* only, and no field of any other task.
C25_NotSelectedUnchanged ==
    [][/\ Showing =>
             /\ Len(tasks') = Len(tasks)
             /\ \A i \in 1..Len(tasks) :
                   /\ tasks'[i] = [tasks[i] EXCEPT !.times_shown = tasks'[i].times_shown]
                   /\ Active(tasks[i]) =>
                          tasks'[i].id \in StoredIds(read_active_tasks(tasks', now'))
       /\ Selecting =>
             /\ Len(tasks') = Len(tasks)
             /\ \E chosen \in PresentedIds(presented) :
                   \A i \in 1..Len(tasks) :
                       IF tasks[i].id = chosen
                       THEN tasks'[i] =
                                [tasks[i] EXCEPT !.times_selected = tasks'[i].times_selected,
                                                 !.is_archived = tasks'[i].is_archived,
                                                 !.from_date = tasks'[i].from_date]
                       ELSE /\ tasks'[i] = tasks[i]
                            /\ Active(tasks[i]) =>
                                   tasks'[i].id \in StoredIds(read_active_tasks(tasks', now'))]_vars

C25_Witness ==
    /\ presented = <<>>
    /\ Len(tasks) = 7
    /\ \E i, j \in 1..Len(tasks) :
          /\ i # j
          /\ tasks[i].times_selected = 1 /\ tasks[i].is_archived
          /\ tasks[j] = [SelectSeven[j] EXCEPT !.id = j, !.times_shown = 1]
          /\ Active(tasks[j])
    /\ Cardinality({k \in 1..Len(tasks) : tasks[k].times_selected # 0}) = 1

WellFormed(task) ==
    /\ is_some(task.due_date) <=> is_some(task.lead_days)
    /\ ~(is_some(task.due_date) /\ is_some(task.repeat_interval))
    /\ is_some(task.lead_days) => unwrap(task.lead_days) > 0
    /\ is_some(task.repeat_interval) => unwrap(task.repeat_interval) > 0

\* the fields that decide a task's mode
Mode(task) == <<task.due_date, task.lead_days, task.repeat_interval>>

\* C27: every task created through request_task_input has a due date exactly
\* when it has a lead, never a due date and a repeat interval, a lead > 0 and
\* an interval > 0, and is stored with times_shown = times_selected = 0 and
\* not archived; no later operation on the store changes the mode of a task.
C27_CreatedWellFormed ==
    /\ [](\A i \in 1..Len(tasks) : WellFormed(tasks[i]))
    /\ [][/\ Len(tasks') >= Len(tasks)
          /\ \A i \in 1..Len(tasks) : Mode(tasks'[i]) = Mode(tasks[i])
          /\ \A i \in (Len(tasks) + 1)..Len(tasks') :
                /\ WellFormed(tasks'[i])
                /\ tasks'[i].times_shown = 0 /\ tasks'[i].times_selected = 0
                /\ ~tasks'[i].is_archived
                /\ tasks'[i].from_date = now]_vars

C27_Witness ==
    /\ Len(tasks) = MaxTasks
    /\ tasks[MaxTasks].from_date = CycleStart
    /\ tasks[MaxTasks].due_date = Some(CycleStart + DurationDays(MaxPromptDays))
    /\ tasks[MaxTasks].lead_days = Some(MaxPromptLead)
    /\ tasks[MaxTasks].repeat_interval = None
    /\ tasks[MaxTasks].times_shown = 1 /\ tasks[MaxTasks].times_selected = 1
    /\ tasks[MaxTasks].is_archived

\* C28: the amount credited when a task is selected is the bounty that was
\* displayed for it when it was presented: the select step appends exactly one
\* transaction, and it credits the bounty of the chosen entry of the presented
\* list, whatever time has passed since the presentation.
C28_PaidAsShown ==
    [][Selecting =>
          \E j \in 1..Len(presented) :
              /\ \A i \in 1..Len(tasks) :
                    tasks[i].id = presented[j].task.id =>
                        tasks'[i].times_selected = tasks[i].times_selected + 1
              /\ transactions' = Append(transactions,
                                        LedgerRecord(now, presented[j].bounty))]_vars

----------------------------------------------------------------------------
(* Properties of the spend prompt and of the counters *)

\* C29: a spend request never increases the balance: for every input,
\* request_transaction appends nothing or appends exactly one transaction
\* recorded as funds_subtracted, and the balance after the call is less than
\* or equal to the balance before it.
C29_SpendNeverCredits ==
    last.op = "request_transaction" =>
        /\ \/ transactions = last.before
           \/ /\ Len(transactions) = Len(last.before) + 1
              /\ SubSeq(transactions, 1, Len(last.before)) = last.before
              /\ is_none(transactions[Len(transactions)].funds_added)
              /\ is_some(transactions[Len(transactions)].funds_subtracted)
        /\ (IsFinite(calc_funds(last.before)) /\ IsFinite(calc_funds(transactions))) =>
               ~RatLess(calc_funds(last.before), calc_funds(transactions))

\* C30: in sequential cycles the stored counters are exact and monotone: a
\* step adds one to times_shown of a task exactly when it presents the task,
\* and one to times_selected of exactly one presented task when it selects;
\* no step lowers a counter, and times_selected <= times_shown in every state.
C30_CountersExact ==
    /\ [](\A i \in 1..Len(tasks) : tasks[i].times_selected <= tasks[i].times_shown)
    /\ [][/\ Len(tasks') >= Len(tasks)
          /\ \A i \in 1..Len(tasks) :
                /\ tasks'[i].times_shown =
                       IF Showing /\ tasks[i].id \in PresentedIds(presented')
                       THEN tasks[i].times_shown + 1
                       ELSE tasks[i].times_shown
                /\ tasks'[i].times_selected =
                       IF tasks'[i].times_selected # tasks[i].times_selected
                       THEN tasks[i].times_selected + 1
                       ELSE tasks[i].times_selected
                /\ tasks'[i].times_selected # tasks[i].times_selected =>
                       (Selecting /\ tasks[i].id \in PresentedIds(presented))
          /\ Selecting =>
                Cardinality({i \in 1..Len(tasks) :
                                tasks'[i].times_selected = tasks[i].times_selected + 1}) = 1]_vars

C30_Witness ==
    /\ presented = <<>>
    /\ Len(transactions) = 2
    /\ \E i, j \in 1..Len(tasks) :
          /\ tasks[i].times_shown = 2 /\ tasks[i].times_selected = 2
          /\ tasks[j].times_shown = 1 /\ tasks[j].times_selected = 0

====
